---- MODULE Spec2Model ----
(***************************************************************************)
(* A model of the Coup turn engine of src/game.py (class Game) with the    *)
(* rule tables and the Player state of src/game_elements.py.               *)
(*                                                                         *)
(* Seats are numbered 0 .. num_players-1 as in self.players; a hand is the *)
(* ordered list Player.cards, the deck is the ordered list Game.deck.      *)
(* Agents are arbitrary: every decision an agent returns is drawn with \E. *)
(* A Python exception that leaves play()/play_turn() is the state          *)
(* pc = "aborted" with its class name in error; the fields keep the values *)
(* they had when the exception was raised.                                 *)
(***************************************************************************)
EXTENDS Integers, Sequences, FiniteSets, TLC

(* ----------------------------- bounds ---------------------------------- *)
MaxPlayers == 3          \* games of 2 .. MaxPlayers players
MaxCoins == 7            \* a move is declared only while its gain keeps the actor within MaxCoins
MaxTargetIndex == 1      \* agents name target_player_index in {None} \cup 0 .. MaxTargetIndex

(* --------------------------- rule tables ------------------------------- *)
Card == {"DUKE", "ASSASSIN", "CAPTAIN", "AMBASSADOR", "CONTESSA"}

Move == {"INCOME", "FOREIGN_AID", "COUP", "TAX", "ASSASSINATE", "STEAL", "EXCHANGE"}

\* Optional[int] / Optional[Player] with the value None
None == -1

enabled_by(move, card) ==
    IF move \in {"INCOME", "FOREIGN_AID", "COUP"} THEN TRUE
    ELSE IF move = "TAX" THEN card = "DUKE"
    ELSE IF move = "ASSASSINATE" THEN card = "ASSASSIN"
    ELSE IF move = "STEAL" THEN card = "CAPTAIN"
    ELSE card = "AMBASSADOR"

\* falls through to Python's None for every other move; any() reads None as false
blockable_by(move, card) ==
    IF move = "FOREIGN_AID" THEN card = "DUKE"
    ELSE IF move = "ASSASSINATE" THEN card = "CONTESSA"
    ELSE IF move = "STEAL" THEN card \in {"CAPTAIN", "AMBASSADOR"}
    ELSE FALSE

(* --------------------------- list helpers ------------------------------ *)
RemoveAt(s, k) == SubSeq(s, 1, k - 1) \o SubSeq(s, k + 1, Len(s))

\* list.remove(card): drops the first occurrence
RemoveFirst(s, card) ==
    RemoveAt(s, CHOOSE k \in 1..Len(s) : s[k] = card /\ \A j \in 1..(k - 1) : s[j] /= card)

\* random.sample(s, k=len(s)): every ordering of s
RECURSIVE sample(_)
sample(s) ==
    IF s = <<>> THEN {<<>>}
    ELSE UNION {{<<s[k]>> \o t : t \in sample(RemoveAt(s, k))} : k \in 1..Len(s)}

RECURSIVE SumOver(_, _)
SumOver(f, S) ==
    IF S = {} THEN 0
    ELSE LET x == CHOOSE y \in S : TRUE IN f[x] + SumOver(f, S \ {x})

\* min() that always gives its second argument
Min_uncapped(a, b) == b

\* Python's min(a, b)
Min(a, b) == IF a <= b THEN a ELSE b

(* ------------------------------ state ---------------------------------- *)
VARIABLES
    num_players,              \* len(self.players)
    hands,                    \* seat -> Player.cards
    coins,                    \* seat -> Player.coins
    deck,                     \* Game.deck
    face_up_cards,            \* Game.face_up_cards
    acting_player_index,      \* Game.acting_player_index
    pc,                       \* position of play() / play_turn()
    error,                    \* class of the exception that ended the run
    action,                   \* play_turn local: action_info / action
    will_take_action,         \* play_turn local
    challenged,               \* play_turn local
    challenging_player_index, \* play_turn local
    challenge_success,        \* play_turn local
    card_lost_in_challenge,   \* play_turn local
    blocked,                  \* play_turn local
    block_attempted,          \* play_turn local
    blocking_player_index,    \* play_turn local
    block_challenged,         \* play_turn local
    block_challenge_success,  \* play_turn local
    card_lost_in_block_challenge, \* play_turn local
    unbound,                  \* names of play_turn locals not assigned yet in this call
    other_i,                  \* loop variable i of _iterate_other_players
    setup_cards,              \* the number of cards in deck and hands right after setup
    returned_since_shuffle,   \* cards were appended to the deck after its last shuffle
    asked                     \* the agent decisions requested so far in this call of play_turn

game == <<num_players, hands, coins, deck, face_up_cards, acting_player_index>>

locals == <<action, will_take_action, challenged, challenging_player_index,
            challenge_success, card_lost_in_challenge, blocked, block_attempted,
            blocking_player_index, block_challenged, block_challenge_success,
            card_lost_in_block_challenge, unbound, other_i>>

vars == <<game, locals, pc, error, setup_cards, returned_since_shuffle, asked>>

Seats == 0..(num_players - 1)


(* ------------------------- derived predicates -------------------------- *)
\* Player.alive() on a hands map
alive(h, p) == Len(h[p]) > 0

is_game_over == Cardinality({p \in Seats : alive(hands, p)}) <= 1

\* winner(): "" when it returns, else the class of the exception it raises
winner_error ==
    IF ~is_game_over THEN "ValueError"
    ELSE IF \A p \in Seats : ~alive(hands, p) THEN "StopIteration"
    ELSE ""

\* winner(): next(player for player in self.players if player.alive())
winner == CHOOSE p \in Seats : alive(hands, p) /\ \A q \in Seats : alive(hands, q) => p <= q

_current_player == acting_player_index

\* the seat of the first living player that _iterate_other_players yields at an
\* offset i >= from, as an offset; num_players when the generator is exhausted.
\* The generator is lazy: alive() is read when the loop asks for the next player.
_iterate_other_players(h, from) ==
    IF \E k \in from..(num_players - 1) : alive(h, (acting_player_index + k) % num_players)
    THEN CHOOSE k \in from..(num_players - 1) :
            /\ alive(h, (acting_player_index + k) % num_players)
            /\ \A j \in from..(k - 1) : ~alive(h, (acting_player_index + j) % num_players)
    ELSE num_players

\* action_from_info: the seat a relative target index resolves to
action_from_info(target_player_index) ==
    IF target_player_index /= None
    THEN (acting_player_index + target_player_index) % num_players
    ELSE None

\* _lose_influence: player.cards.pop(0); the popped card is stored nowhere
_lose_influence(h, p) == [h EXCEPT ![p] = Tail(@)]

\* next(card for card in cards if <predicate>) for the two reveal sites
card_revealed_enabling(cards, move) ==
    cards[CHOOSE k \in 1..Len(cards) :
            enabled_by(move, cards[k]) /\ \A j \in 1..(k - 1) : ~enabled_by(move, cards[j])]

card_revealed_blocking(cards, move) ==
    cards[CHOOSE k \in 1..Len(cards) :
            blockable_by(move, cards[k]) /\ \A j \in 1..(k - 1) : ~blockable_by(move, cards[j])]

\* _deal_card: self.deck.pop(0) returns the top card
_deal_card(d) == [card |-> Head(d), deck |-> Tail(d)]

\* a _return_player_card that takes the card from the hand and loses it
_return_player_card_drops(h, d, card, p) ==
    [hands |-> [h EXCEPT ![p] = RemoveFirst(@, card)], deck |-> d]

\* _return_player_card: the card leaves the hand and is appended to the deck
_return_player_card(h, d, card, p) ==
    [hands |-> [h EXCEPT ![p] = RemoveFirst(@, card)], deck |-> Append(d, card)]

\* _shuffle_deck: the orders sample() can give the deck
_shuffle_deck(d) == sample(d)

\* _replace_player_card that forgets to draw the replacement
_replace_player_card_no_draw(h, d, card, p) ==
    {[hands |-> [h EXCEPT ![p] = RemoveFirst(@, card)], deck |-> shuffled] :
        shuffled \in sample(Append(d, card))}

\* _replace_player_card: return, shuffle, deal, append; one outcome per shuffle
_replace_player_card(h, d, card, p) ==
    LET returned == _return_player_card(h, d, card, p) IN
    {[hands |-> [returned.hands EXCEPT ![p] = Append(@, _deal_card(shuffled).card)],
      deck  |-> _deal_card(shuffled).deck] : shuffled \in _shuffle_deck(returned.deck)}

(* position of play_turn after the challenge loop / block loop advances *)
BlockLoopFrom(h, from) ==
    IF _iterate_other_players(h, from) < num_players
    THEN [pc |-> "block", i |-> _iterate_other_players(h, from)]
    ELSE [pc |-> "effect", i |-> 0]

\* a challenge loop that passes over the next living player
ChallengeLoopFrom_skips_next(h, from) ==
    IF _iterate_other_players(h, from + 1) < num_players
    THEN [pc |-> "challenge", i |-> _iterate_other_players(h, from + 1)]
    ELSE BlockLoopFrom(h, 1)

ChallengeLoopFrom(h, from) ==
    IF _iterate_other_players(h, from) < num_players
    THEN [pc |-> "challenge", i |-> _iterate_other_players(h, from)]
    ELSE BlockLoopFrom(h, 1)

(* ------------------------------ setup ---------------------------------- *)
\* list(Card), the order of the enum
CardList == <<"DUKE", "ASSASSIN", "CAPTAIN", "AMBASSADOR", "CONTESSA">>

\* Game.__init__ parameter unshuffled_deck: the decks games are set up with
UnshuffledDecks == {CardList, SubSeq(CardList, 1, 4), SubSeq(CardList, 2, 5)}

\* Game.__init__ parameter cards_per_player
CardsPerPlayer == {1}

starting_coins == 2

TurnLocals == {"challenged", "challenging_player_index", "challenge_success",
               "card_lost_in_challenge", "block_attempted", "blocking_player_index",
               "block_challenged", "block_challenge_success",
               "card_lost_in_block_challenge"}

\* the value the model gives a card-typed local that is not bound
NoCard == "None"

NoAction == [move |-> "INCOME", target_player_index |-> None, target_player |-> None]

\* the values of play_turn's locals outside a call of play_turn
LocalsReset ==
    /\ action = NoAction
    /\ will_take_action = FALSE
    /\ challenged = FALSE
    /\ challenging_player_index = None
    /\ challenge_success = FALSE
    /\ card_lost_in_challenge = NoCard
    /\ card_lost_in_block_challenge = NoCard
    /\ blocked = FALSE
    /\ block_attempted = FALSE
    /\ blocking_player_index = None
    /\ block_challenged = FALSE
    /\ block_challenge_success = FALSE
    /\ unbound = TurnLocals
    /\ other_i = 0

\* Game.__init__ up to the players list: the setup assertion holds, the deck is
\* shuffled and every player is dealt cards_per_player cards from its top, in seat
\* order.  The games set up here use a deck of exactly the size the assertion asks.
Dealt ==
    \E n \in 2..MaxPlayers, cards_per_player \in CardsPerPlayer, unshuffled_deck \in UnshuffledDecks :
      \E shuffled \in sample(unshuffled_deck) :
        /\ n * cards_per_player + 2 <= Len(unshuffled_deck)
        /\ Len(unshuffled_deck) = n * cards_per_player + 2
        /\ num_players = n
        /\ hands = [p \in 0..(n - 1) |->
                      SubSeq(shuffled, p * cards_per_player + 1, (p + 1) * cards_per_player)]
        /\ coins = [p \in 0..(n - 1) |-> starting_coins]
        /\ deck = SubSeq(shuffled, n * cards_per_player + 1, Len(shuffled))
        /\ face_up_cards = <<>>
        /\ acting_player_index = 0
        /\ error = ""
        /\ setup_cards = Len(unshuffled_deck)
        /\ returned_since_shuffle = FALSE
        /\ asked = <<>>
        /\ LocalsReset


(* --------------------------- play_turn --------------------------------- *)
TargetIndices == {None} \cup 0..MaxTargetIndex

\* the most coins a move's effect can give the actor
Gain(move) ==
    IF move = "INCOME" THEN 1
    ELSE IF move \in {"FOREIGN_AID", "STEAL"} THEN 2
    ELSE IF move = "TAX" THEN 3
    ELSE 0

\* the moves agents name a target for
TargetedMoves == {"COUP", "ASSASSINATE", "STEAL"}

\* an agent callback: who was asked what, what it answered, and the size of the
\* hand it held when asked
Ask(p, decision, answer) ==
    [player |-> p, decision |-> decision, answer |-> answer, cards |-> Len(hands[p])]

\* an exception leaves play_turn: the game fields are given by the caller
Raise(e) == pc' = "aborted" /\ error' = e /\ other_i' = 0

\* play(): while not is_game_over(): play_turn().  play_turn lines 193-200 and 210:
\* the current player declares, the target is resolved and must be alive
Declare ==
    /\ pc = "play"
    /\ ~is_game_over
    /\ \E move \in Move, target_player_index \in TargetIndices :
         LET target_player == action_from_info(target_player_index)
             next == ChallengeLoopFrom(hands, 1)
         IN /\ coins[_current_player] + Gain(move) <= MaxCoins
            /\ target_player_index /= None => move \in TargetedMoves
            /\ asked' = <<Ask(_current_player, "action", TRUE)>>
            /\ action' = [move |-> move, target_player_index |-> target_player_index,
                          target_player |-> target_player]
            /\ IF target_player /= None /\ ~alive(hands, target_player)
               THEN /\ Raise("AssertionError")
                    /\ will_take_action' = FALSE
               ELSE /\ pc' = next.pc
                    /\ other_i' = next.i
                    /\ error' = error
                    /\ will_take_action' = TRUE
            /\ UNCHANGED <<game, setup_cards, returned_since_shuffle, challenged, challenging_player_index, challenge_success,
                           card_lost_in_challenge, blocked, block_attempted, blocking_player_index,
                           block_challenged, block_challenge_success,
                           card_lost_in_block_challenge, unbound>>

\* step_challenge with the loser of a successful challenge swapped
step_challenge_wrong_loser(h, d, acting_player, move, challenging_player) ==
    IF ~\E k \in 1..Len(h[acting_player]) : enabled_by(move, h[acting_player][k])
    THEN {[hands |-> _lose_influence(h, challenging_player), deck |-> d,
           challenge_success |-> TRUE, card_lost |-> Head(h[challenging_player]), error |-> ""]}
    ELSE LET lost == _lose_influence(h, challenging_player)
             card_revealed == card_revealed_enabling(lost[acting_player], move)
         IN {[hands |-> [lost EXCEPT ![acting_player] = Append(RemoveFirst(@, card_revealed), Head(shuffled))],
              deck |-> Tail(shuffled), challenge_success |-> FALSE,
              card_lost |-> Head(h[challenging_player]), error |-> ""] :
                shuffled \in sample(Append(d, card_revealed))}

\* step_challenge: [hands, deck, challenge_success, card_lost, error] outcomes
step_challenge(h, d, acting_player, move, challenging_player) ==
    IF ~\E k \in 1..Len(h[acting_player]) : enabled_by(move, h[acting_player][k])
    THEN IF h[acting_player] = <<>>
         THEN {[hands |-> h, deck |-> d, challenge_success |-> TRUE,
                card_lost |-> NoCard, error |-> "IndexError"]}
         ELSE {[hands |-> _lose_influence(h, acting_player), deck |-> d,
                challenge_success |-> TRUE, card_lost |-> Head(h[acting_player]), error |-> ""]}
    ELSE LET lost == _lose_influence(h, challenging_player)
             card_revealed == card_revealed_enabling(lost[acting_player], move)
         IN {[hands |-> r.hands, deck |-> r.deck, challenge_success |-> FALSE,
              card_lost |-> Head(h[challenging_player]), error |-> ""] :
                r \in _replace_player_card(lost, d, card_revealed, acting_player)}

\* play_turn lines 201-208: one iteration of the challenge loop
ChallengeStep ==
    /\ pc = "challenge"
    /\ LET other_player == (acting_player_index + other_i) % num_players IN
       \E decision \in BOOLEAN :
         /\ asked' = Append(asked, Ask(other_player, "challenge", decision))
         /\ challenged' = decision
         /\ UNCHANGED <<num_players, setup_cards, coins, face_up_cards, acting_player_index, action, blocked,
                        block_attempted, blocking_player_index, block_challenged,
                        block_challenge_success, card_lost_in_block_challenge>>
         /\ IF ~decision
            THEN /\ unbound' = unbound \ {"challenged"}
                 /\ pc' = ChallengeLoopFrom(hands, other_i + 1).pc
                 /\ other_i' = ChallengeLoopFrom(hands, other_i + 1).i
                 /\ UNCHANGED <<hands, deck, error, will_take_action,
                                challenging_player_index, challenge_success,
                                card_lost_in_challenge>>
            ELSE \E r \in step_challenge(hands, deck, acting_player_index, action.move, other_player) :
                 /\ challenging_player_index' = other_player
                 /\ hands' = r.hands
                 /\ deck' = r.deck
                 /\ IF r.error /= ""
                    THEN /\ Raise(r.error)
                         /\ unbound' = unbound \ {"challenged", "challenging_player_index"}
                         /\ UNCHANGED <<will_take_action, challenge_success,
                                        card_lost_in_challenge>>
                    ELSE /\ challenge_success' = r.challenge_success
                         /\ card_lost_in_challenge' = r.card_lost
                         /\ will_take_action' = ~r.challenge_success
                         /\ unbound' = unbound \ {"challenged", "challenging_player_index",
                                                  "challenge_success", "card_lost_in_challenge"}
                         /\ pc' = BlockLoopFrom(r.hands, 1).pc
                         /\ other_i' = BlockLoopFrom(r.hands, 1).i
                         /\ error' = error
    \* a failed challenge ends in _replace_player_card: return, then shuffle, then deal
    /\ returned_since_shuffle' =
         IF challenged' /\ pc' /= "aborted" /\ ~challenge_success'
         THEN FALSE ELSE returned_since_shuffle

\* step_block_challenge: [hands, deck, challenge_success, card_lost, error] outcomes
step_block_challenge(h, d, acting_player, move, blocking_player) ==
    IF ~\E k \in 1..Len(h[blocking_player]) : blockable_by(move, h[blocking_player][k])
    THEN IF h[blocking_player] = <<>>
         THEN {[hands |-> h, deck |-> d, challenge_success |-> TRUE,
                card_lost |-> NoCard, error |-> "IndexError"]}
         ELSE {[hands |-> _lose_influence(h, blocking_player), deck |-> d,
                challenge_success |-> TRUE, card_lost |-> Head(h[blocking_player]), error |-> ""]}
    ELSE IF h[acting_player] = <<>>
         THEN {[hands |-> h, deck |-> d, challenge_success |-> FALSE,
                card_lost |-> NoCard, error |-> "IndexError"]}
         ELSE LET lost == _lose_influence(h, acting_player)
                  card_revealed == card_revealed_blocking(lost[blocking_player], move)
              IN {[hands |-> r.hands, deck |-> r.deck, challenge_success |-> FALSE,
                   card_lost |-> Head(h[acting_player]), error |-> ""] :
                     r \in _replace_player_card(lost, d, card_revealed, blocking_player)}

\* play_turn lines 211-220: one iteration of the block loop; the loop has no break
BlockStep ==
    /\ pc = "block"
    /\ LET other_player == (acting_player_index + other_i) % num_players IN
       \E block_decision \in BOOLEAN :
         /\ block_attempted' = block_decision
         /\ UNCHANGED <<num_players, setup_cards, coins, face_up_cards, acting_player_index, action,
                        will_take_action, challenged, challenging_player_index,
                        challenge_success, card_lost_in_challenge>>
         /\ IF ~block_decision
            THEN /\ asked' = Append(asked, Ask(other_player, "block", FALSE))
                 /\ unbound' = unbound \ {"block_attempted"}
                 /\ pc' = BlockLoopFrom(hands, other_i + 1).pc
                 /\ other_i' = BlockLoopFrom(hands, other_i + 1).i
                 /\ UNCHANGED <<hands, deck, error, blocked, blocking_player_index,
                                block_challenged, block_challenge_success,
                                card_lost_in_block_challenge>>
            ELSE \E challenge_decision \in BOOLEAN :
                 /\ asked' = asked \o <<Ask(other_player, "block", TRUE),
                                        Ask(_current_player, "block_challenge", challenge_decision)>>
                 /\ blocking_player_index' = other_player
                 /\ block_challenged' = challenge_decision
                 /\ IF ~challenge_decision
                    THEN /\ blocked' = TRUE
                         /\ unbound' = unbound \ {"block_attempted", "blocking_player_index",
                                                  "block_challenged"}
                         /\ pc' = BlockLoopFrom(hands, other_i + 1).pc
                         /\ other_i' = BlockLoopFrom(hands, other_i + 1).i
                         /\ UNCHANGED <<hands, deck, error, block_challenge_success,
                                        card_lost_in_block_challenge>>
                    ELSE \E r \in step_block_challenge(hands, deck, acting_player_index,
                                                       action.move, other_player) :
                         /\ hands' = r.hands
                         /\ deck' = r.deck
                         /\ IF r.error /= ""
                            THEN /\ Raise(r.error)
                                 /\ unbound' = unbound \ {"block_attempted", "blocking_player_index",
                                                          "block_challenged"}
                                 /\ UNCHANGED <<blocked, block_challenge_success,
                                                card_lost_in_block_challenge>>
                            ELSE /\ block_challenge_success' = r.challenge_success
                                 /\ card_lost_in_block_challenge' = r.card_lost
                                 /\ blocked' = ~r.challenge_success
                                 /\ unbound' = unbound \ {"block_attempted", "blocking_player_index",
                                                          "block_challenged", "block_challenge_success",
                                                          "card_lost_in_block_challenge"}
                                 /\ pc' = BlockLoopFrom(r.hands, other_i + 1).pc
                                 /\ other_i' = BlockLoopFrom(r.hands, other_i + 1).i
                                 /\ error' = error
    \* a failed counter-challenge ends in _replace_player_card: return, shuffle, deal
    /\ returned_since_shuffle' =
         IF block_attempted' /\ block_challenged' /\ pc' /= "aborted" /\ ~block_challenge_success'
         THEN FALSE ELSE returned_since_shuffle


\* an effect step in which a standing block also spares the assassin's fee
_step_nonexchange_action_block_refunds(h, c, act, is_blocked) ==
    LET acting_player == _current_player
        move == act.move
        target_player == act.target_player
        ok(h2, c2) == [hands |-> h2, coins |-> c2, error |-> ""]
        fail(h2, c2, e) == [hands |-> h2, coins |-> c2, error |-> e]
    IN
    IF move = "INCOME" THEN
        IF is_blocked THEN fail(h, c, "AssertionError")
        ELSE ok(h, [c EXCEPT ![acting_player] = @ + 1])
    ELSE IF move = "FOREIGN_AID" THEN
        IF ~is_blocked THEN ok(h, [c EXCEPT ![acting_player] = @ + 2]) ELSE ok(h, c)
    ELSE IF move = "COUP" THEN
        IF is_blocked THEN fail(h, c, "AssertionError")
        ELSE IF c[acting_player] < 7 \/ target_player = None THEN fail(h, c, "ValueError")
        ELSE IF h[target_player] = <<>>
             THEN fail(h, [c EXCEPT ![acting_player] = @ - 7], "IndexError")
             ELSE ok(_lose_influence(h, target_player), [c EXCEPT ![acting_player] = @ - 7])
    ELSE IF move = "TAX" THEN
        IF is_blocked THEN fail(h, c, "AssertionError")
        ELSE ok(h, [c EXCEPT ![acting_player] = @ + 3])
    ELSE IF move = "ASSASSINATE" THEN
        IF ~(c[acting_player] >= 3 /\ target_player /= None) THEN fail(h, c, "AssertionError")
        ELSE IF ~is_blocked /\ alive(h, target_player)
             THEN ok(_lose_influence(h, target_player), [c EXCEPT ![acting_player] = @ - 3])
             ELSE ok(h, c)
    ELSE IF move = "STEAL" THEN
        IF target_player = None THEN fail(h, c, "AssertionError")
        ELSE IF ~is_blocked
             THEN LET gained == [c EXCEPT ![acting_player] = @ + Min(c[target_player], 2)]
                  IN ok(h, [gained EXCEPT ![target_player] = @ - Min(gained[target_player], 2)])
             ELSE ok(h, c)
    ELSE fail(h, c, "ValueError")

\* _step_nonexchange_action: [hands, coins, error]; an exception keeps what was
\* assigned before it was raised
_step_nonexchange_action(h, c, act, is_blocked) ==
    LET acting_player == _current_player
        move == act.move
        target_player == act.target_player
        ok(h2, c2) == [hands |-> h2, coins |-> c2, error |-> ""]
        fail(h2, c2, e) == [hands |-> h2, coins |-> c2, error |-> e]
    IN
    IF move = "INCOME" THEN
        IF is_blocked THEN fail(h, c, "AssertionError")
        ELSE ok(h, [c EXCEPT ![acting_player] = @ + 1])
    ELSE IF move = "FOREIGN_AID" THEN
        IF ~is_blocked THEN ok(h, [c EXCEPT ![acting_player] = @ + 2]) ELSE ok(h, c)
    ELSE IF move = "COUP" THEN
        IF is_blocked THEN fail(h, c, "AssertionError")
        ELSE IF c[acting_player] < 7 \/ target_player = None THEN fail(h, c, "ValueError")
        ELSE IF h[target_player] = <<>>
             THEN fail(h, [c EXCEPT ![acting_player] = @ - 7], "IndexError")
             ELSE ok(_lose_influence(h, target_player), [c EXCEPT ![acting_player] = @ - 7])
    ELSE IF move = "TAX" THEN
        IF is_blocked THEN fail(h, c, "AssertionError")
        ELSE ok(h, [c EXCEPT ![acting_player] = @ + 3])
    ELSE IF move = "ASSASSINATE" THEN
        IF ~(c[acting_player] >= 3 /\ target_player /= None) THEN fail(h, c, "AssertionError")
        ELSE IF ~is_blocked /\ alive(h, target_player)
             THEN ok(_lose_influence(h, target_player), [c EXCEPT ![acting_player] = @ - 3])
             ELSE ok(h, [c EXCEPT ![acting_player] = @ - 3])
    ELSE IF move = "STEAL" THEN
        IF target_player = None THEN fail(h, c, "AssertionError")
        ELSE IF ~is_blocked
             THEN LET gained == [c EXCEPT ![acting_player] = @ + Min(c[target_player], 2)]
                  IN ok(h, [gained EXCEPT ![target_player] = @ - Min(gained[target_player], 2)])
             ELSE ok(h, c)
    ELSE fail(h, c, "ValueError")

\* the sub-list of s at the positions I, in order
Pick(s, I) ==
    LET F[k \in 0..Len(s)] ==
            IF k = 0 THEN <<>> ELSE IF k \in I THEN Append(F[k - 1], s[k]) ELSE F[k - 1]
    IN F[Len(s)]

\* Player.choose_cards (called by play_turn, defined nowhere in the sources):
\* the agent keeps keep_count of the offered cards, in the order offered
choose_cards(cards_to_choose_from, keep_count) ==
    {Pick(cards_to_choose_from, I) :
        I \in {J \in SUBSET (1..Len(cards_to_choose_from)) : Cardinality(J) = keep_count}}

\* _complete_exchange's cards_to_return: the offered copy with each chosen card removed once
RECURSIVE cards_to_return(_, _)
cards_to_return(cards_to_choose_from, chosen_cards) ==
    IF chosen_cards = <<>> THEN cards_to_choose_from
    ELSE cards_to_return(RemoveFirst(cards_to_choose_from, Head(chosen_cards)), Tail(chosen_cards))

\* a _complete_exchange that appends every offered card, the kept ones included
_complete_exchange_returns_all(h, d, p, cards_to_choose_from, chosen_cards) ==
    [hands |-> [h EXCEPT ![p] = chosen_cards],
     deck  |-> d \o cards_to_choose_from]

\* _complete_exchange: the player keeps chosen_cards, the rest is appended to the deck
_complete_exchange(h, d, p, cards_to_choose_from, chosen_cards) ==
    [hands |-> [h EXCEPT ![p] = chosen_cards],
     deck  |-> d \o cards_to_return(cards_to_choose_from, chosen_cards)]

\* play_turn lines 222-228: the effect step
Effect ==
    /\ pc = "effect"
    /\ UNCHANGED <<num_players, setup_cards, face_up_cards, acting_player_index, locals>>
    /\ IF ~will_take_action
       THEN /\ pc' = "observe"
            /\ asked' = asked
            /\ UNCHANGED <<hands, coins, deck, error>>
       ELSE IF action.move = "EXCHANGE"
       THEN IF Len(deck) < 2
            THEN \* _exchange_cards_to_choose_from: a _deal_card pops from an empty deck
                 /\ pc' = "aborted"
                 /\ error' = "IndexError"
                 /\ deck' = <<>>
                 /\ asked' = asked
                 /\ UNCHANGED <<hands, coins>>
            ELSE LET first == _deal_card(deck)
                     second == _deal_card(first.deck)
                     cards_to_choose_from == hands[_current_player] \o <<first.card, second.card>>
                 IN \E chosen_cards \in choose_cards(cards_to_choose_from, Len(hands[_current_player])) :
                    LET r == _complete_exchange(hands, second.deck, _current_player,
                                                cards_to_choose_from, chosen_cards)
                    IN /\ hands' = r.hands
                       /\ deck' = r.deck
                       /\ asked' = Append(asked, Ask(_current_player, "choose_cards", TRUE))
                       /\ pc' = "observe"
                       /\ UNCHANGED <<coins, error>>
       ELSE LET r == _step_nonexchange_action(hands, coins, action, blocked)
            IN /\ hands' = r.hands
               /\ coins' = r.coins
               /\ error' = r.error
               /\ pc' = IF r.error = "" THEN "observe" ELSE "aborted"
               /\ asked' = asked
               /\ UNCHANGED deck
    \* _complete_exchange appends the cards it returns and does not shuffle
    /\ returned_since_shuffle' =
         IF will_take_action /\ action.move = "EXCHANGE" /\ pc' = "observe"
         THEN TRUE ELSE returned_since_shuffle

(* ---------------------------- observation ------------------------------ *)
\* to_game_view: the indices into self.players that other_players reads
other_players_indices(observer_index) ==
    {observer_index + i : i \in (1..(num_players - 1)) \ {observer_index}}

\* to_game_view raises IndexError when one of those indices is past the list
to_game_view_raises(observer_index) ==
    \E k \in other_players_indices(observer_index) : k > num_players - 1

\* to_game_view's other_players, as the list of the indices it reads:
\* [observer_index + i for i in range(1, num_players) if i != observer_index]
other_players(observer_index) ==
    LET offsets == SelectSeq([i \in 1..(num_players - 1) |-> i],
                             LAMBDA i : i /= observer_index)
    IN [k \in 1..Len(offsets) |-> observer_index + offsets[k]]

\* to_game_view: the GameView of an observer for whom it does not raise, on the
\* hands h and the coins c
to_game_view(h, c, observer_index) ==
    LET others == other_players(observer_index) IN
    [observer_index |-> observer_index,
     observer_coins |-> c[observer_index],
     observer_cards |-> h[observer_index],
     other_player_coins |-> [k \in 1..Len(others) |-> c[others[k]]],
     other_player_card_counts |-> [k \in 1..Len(others) |-> Len(h[others[k]])]]

\* Optional[...] fields of TurnView: the value, or None when the guard of the
\* conditional expression is false
OptionalInt(present, i) == IF present THEN i ELSE None

OptionalBool(present, b) == IF ~present THEN "None" ELSE IF b THEN "True" ELSE "False"

OptionalCard(present, card) == IF present THEN card ELSE NoCard

\* the Player object an Action refers to: the agent that receives the Action can
\* read its coins and its cards
PlayerObject(h, c, p) ==
    IF p = None THEN [is_none |-> TRUE, coins |-> 0, cards |-> <<>>]
    ELSE [is_none |-> FALSE, coins |-> c[p], cards |-> h[p]]

\* play_turn lines 231-245: the TurnView built for an observer when no local it
\* reads is unbound, on the hands h and the coins c
TurnView(h, c, observer_index) ==
    [observer_index |-> observer_index,
     acting_player_index |-> acting_player_index,
     action |-> [acting_player |-> PlayerObject(h, c, acting_player_index),
                 move |-> action.move,
                 target_player |-> PlayerObject(h, c, action.target_player)],
     challenged |-> challenged,
     challenging_player_index |-> OptionalInt(challenged, challenging_player_index),
     challenge_success |-> OptionalBool(challenged, challenge_success),
     card_lost_in_challenge |-> OptionalCard(challenged, card_lost_in_challenge),
     blocked |-> blocked,
     block_attempted |-> block_attempted,
     blocking_player_index |-> OptionalInt(block_attempted, blocking_player_index),
     block_challenged |-> OptionalBool(block_attempted, block_challenged),
     block_challenge_success |-> OptionalBool(block_attempted, block_challenge_success),
     card_lost_in_block_challenge |-> OptionalCard(block_attempted, card_lost_in_block_challenge)]

\* player.observe(turn_view, game_view): what play_turn line 246 hands an observer
observe(h, c, observer_index) ==
    <<TurnView(h, c, observer_index), to_game_view(h, c, observer_index)>>

\* play_turn lines 230-246: the exception raised while the turn views are built
\* and delivered, "" when every observer gets its views
ObserveError ==
    IF "challenged" \in unbound THEN "UnboundLocalError"
    ELSE IF "block_attempted" \in unbound THEN "UnboundLocalError"
    ELSE IF block_attempted /\ "block_challenge_success" \in unbound THEN "UnboundLocalError"
    ELSE IF \E o \in Seats : to_game_view_raises(o) THEN "IndexError"
    ELSE ""

\* play_turn returns: its locals are gone
ReturnFromTurn ==
    /\ action' = NoAction
    /\ will_take_action' = FALSE
    /\ challenged' = FALSE
    /\ challenging_player_index' = None
    /\ challenge_success' = FALSE
    /\ card_lost_in_challenge' = NoCard
    /\ card_lost_in_block_challenge' = NoCard
    /\ blocked' = FALSE
    /\ block_attempted' = FALSE
    /\ blocking_player_index' = None
    /\ block_challenged' = FALSE
    /\ block_challenge_success' = FALSE
    /\ unbound' = TurnLocals
    /\ other_i' = 0

\* play_turn lines 230-248: observation, then the pointer moves to the next seat
Observe ==
    /\ pc = "observe"
    /\ UNCHANGED <<num_players, setup_cards, returned_since_shuffle, hands, coins, deck,
                   face_up_cards>>
    /\ IF ObserveError /= ""
       THEN /\ pc' = "aborted"
            /\ error' = ObserveError
            /\ UNCHANGED <<acting_player_index, locals, asked>>
       ELSE /\ acting_player_index' = (acting_player_index + 1) % num_players
            /\ pc' = "play"
            /\ error' = error
            /\ asked' = <<>>
            /\ ReturnFromTurn

\* play() lines 251 and 256: the loop ends and winner() is returned
PlayReturn ==
    /\ pc = "play"
    /\ is_game_over
    /\ pc' = IF winner_error = "" THEN "returned" ELSE "aborted"
    /\ error' = winner_error
    /\ asked' = asked
    /\ UNCHANGED <<game, setup_cards, returned_since_shuffle, locals>>

\* Game.__init__ line 64: every agent is handed its initial game view
load_initial_game_view ==
    /\ pc = "init"
    /\ IF \E o \in Seats : to_game_view_raises(o)
       THEN pc' = "aborted" /\ error' = "IndexError"
       ELSE pc' = "play" /\ error' = error
    /\ UNCHANGED <<game, setup_cards, returned_since_shuffle, locals, asked>>

(* -------------------------- specifications ----------------------------- *)
\* main(): Game(...) is constructed, then play() runs the game
Init == Dealt /\ pc = "init"

Next ==
    \/ load_initial_game_view
    \/ Declare
    \/ ChallengeStep
    \/ BlockStep
    \/ Effect
    \/ Observe
    \/ PlayReturn

Spec == Init /\ [][Next]_vars

\* play_turn() on a dealt game of any size whose agents were not handed initial views
TurnInit == Dealt /\ pc = "play"

TurnNext ==
    \/ Declare
    \/ ChallengeStep
    \/ BlockStep
    \/ Effect
    \/ Observe
    \/ PlayReturn

TurnSpec == TurnInit /\ [][TurnNext]_vars

\* IncomeAgent.get_action_info: the agent's coins are the observer_coins of the
\* last game view it was handed, the balance of its player
IncomeAgent_get_action_info ==
    IF coins[acting_player_index] < 7
    THEN [move |-> "INCOME", target_player_index |-> None]
    ELSE [move |-> "COUP", target_player_index |-> 1]

\* play_turn when every agent is an IncomeAgent
IncomeDeclare ==
    /\ Declare
    /\ action'.move = IncomeAgent_get_action_info.move
    /\ action'.target_player_index = IncomeAgent_get_action_info.target_player_index

\* IncomeAgent.get_challenge_decision returns False
IncomeChallengeStep == ChallengeStep /\ ~challenged'

\* IncomeAgent.get_block_decision returns False
IncomeBlockStep == BlockStep /\ ~block_attempted'

\* main(): a game whose agents are all IncomeAgents
IncomeNext ==
    \/ load_initial_game_view
    \/ IncomeDeclare
    \/ IncomeChallengeStep
    \/ IncomeBlockStep
    \/ Effect
    \/ Observe
    \/ PlayReturn

IncomeSpec == Init /\ [][IncomeNext]_vars


(* ------------------------------ claims --------------------------------- *)
AliveSeats == {p \in Seats : alive(hands, p)}

CardsInHands == SumOver([p \in Seats |-> Len(hands[p])], Seats)

CoinsOf(c) == SumOver(c, Seats)

Least(a, b) == IF a <= b THEN a ELSE b

HoldsEnabling(p, move) == \E k \in 1..Len(hands[p]) : enabled_by(move, hands[p][k])

HoldsBlocking(p, move) == \E k \in 1..Len(hands[p]) : blockable_by(move, hands[p][k])

\* the opening challenge of this turn was resolved and succeeded
ChallengeSucceeded == "challenge_success" \notin unbound /\ challenge_success

\* the opening challenge of this turn was resolved and failed
ChallengeFailed == "challenge_success" \notin unbound /\ ~challenge_success

\* this step resolves an opening challenge
ChallengeMade == pc = "challenge" /\ challenged'

\* this step resolves a counter-challenge of a block
CounterChallengeMade == pc = "block" /\ block_attempted' /\ block_challenged'

\* some player answered yes to the decision d in this turn
Answered(d) == \E k \in 1..Len(asked) : asked[k].decision = d /\ asked[k].answer

\* in this turn a block was declared and the actor declined to counter-challenge it
UnchallengedBlockInTurn ==
    \E k \in 1..(Len(asked) - 1) :
        /\ asked[k].decision = "block" /\ asked[k].answer
        /\ asked[k + 1].decision = "block_challenge" /\ ~asked[k + 1].answer

\* the latest counter-challenge of this turn was resolved and succeeded / failed
CounterChallengeSucceeded == "block_challenge_success" \notin unbound /\ block_challenge_success

CounterChallengeFailed == "block_challenge_success" \notin unbound /\ ~block_challenge_success

(* C1: card conservation.  In every reachable state the cards in the deck plus   *)
(* the cards in all hands number what they did right after setup: a card that    *)
(* leaves a hand (influence loss, reveal, exchange) goes back to the deck.       *)
C1_CardConservation == Len(deck) + CardsInHands = setup_cards

(* C2: termination and winner.  is_game_over() holds exactly when one player is  *)
(* alive, winner() then returns that player, and winner() raises its "not over"  *)
(* error while the game is not over.                                             *)
C2_TerminationAndWinner ==
    /\ is_game_over <=> Cardinality(AliveSeats) = 1
    /\ is_game_over => (winner_error = "" /\ AliveSeats = {winner})
    /\ ~is_game_over => winner_error = "ValueError"

(* C3: dead players are skipped.  Every player asked to declare a move, to       *)
(* challenge, to block or to counter-challenge a block held at least one card    *)
(* when it was asked.                                                            *)
C3_DeadPlayersSkipped ==
    \A k \in 1..Len(asked) :
        asked[k].decision \in {"action", "challenge", "block", "block_challenge"}
            => asked[k].cards > 0

(* C4: challenge of a bluff.  When the declared move is challenged and the actor *)
(* holds no enabling card, the challenge succeeds, the actor loses exactly one   *)
(* card and nobody else loses one, and the effect step of that turn changes no   *)
(* coins, no hand and not the deck.                                              *)
C4_ChallengeOfBluff ==
    [][/\ (ChallengeMade /\ ~HoldsEnabling(acting_player_index, action.move)) =>
            /\ pc' /= "aborted"
            /\ challenge_success'
            /\ Len(hands'[acting_player_index]) = Len(hands[acting_player_index]) - 1
            /\ \A p \in Seats \ {acting_player_index} : hands'[p] = hands[p]
            /\ coins' = coins /\ deck' = deck
       /\ (pc = "effect" /\ ChallengeSucceeded) =>
            /\ pc' = "observe"
            /\ coins' = coins /\ hands' = hands /\ deck' = deck
      ]_vars

\* a bluff was challenged and the turn has passed its effect step
C4_Witness == pc = "observe" /\ challenged /\ ChallengeSucceeded

(* C5: challenge of a truthful claim.  When the declared move is challenged and  *)
(* the actor holds an enabling card, the challenge fails, the challenger loses   *)
(* exactly one card, and after the reveal and redraw the actor's hand and the    *)
(* deck have the sizes they had before the challenge.                            *)
C5_ChallengeOfTruth ==
    [][(ChallengeMade /\ HoldsEnabling(acting_player_index, action.move)) =>
            /\ pc' /= "aborted"
            /\ ~challenge_success'
            /\ Len(hands'[challenging_player_index']) = Len(hands[challenging_player_index']) - 1
            /\ Len(hands'[acting_player_index]) = Len(hands[acting_player_index])
            /\ Len(deck') = Len(deck)
      ]_vars

\* a truthful claim of a role card was challenged and the challenge resolved
C5_Witness ==
    /\ pc \in {"block", "effect"}
    /\ challenged /\ ChallengeFailed
    /\ action.move \in {"TAX", "ASSASSINATE", "STEAL", "EXCHANGE"}

C7_SuccessfulCounterChallenge ==
    [][/\ (CounterChallengeMade /\ ~HoldsBlocking(blocking_player_index', action.move)) =>
            /\ pc' /= "aborted"
            /\ block_challenge_success' /\ ~blocked'
            /\ Len(hands'[blocking_player_index']) = Len(hands[blocking_player_index']) - 1
       /\ (pc = "effect" /\ CounterChallengeSucceeded /\ will_take_action) =>
            LET a == acting_player_index
                t == action.target_player
            IN /\ action.move = "FOREIGN_AID" => coins'[a] = coins[a] + 2
               /\ (action.move = "STEAL" /\ t /= None) =>
                    /\ coins'[a] = coins[a] + Least(coins[t], 2)
                    /\ coins'[t] = coins[t] - Least(coins[t], 2)
               /\ (action.move = "ASSASSINATE" /\ t /= None /\ coins[a] >= 3) =>
                    /\ coins'[a] = coins[a] - 3
                    /\ alive(hands, t) => Len(hands'[t]) = Len(hands[t]) - 1
      ]_vars

(* C8: failed counter-challenge.  When a block is counter-challenged and the     *)
(* blocker holds a blocking card, the actor loses exactly one card, the          *)
(* blocker's hand keeps its size after the reveal and redraw, and the block      *)
(* stands: the effect step gives no coins and takes no card.                     *)
C8_FailedCounterChallenge ==
    [][/\ (CounterChallengeMade /\ HoldsBlocking(blocking_player_index', action.move)) =>
            /\ pc' /= "aborted"
            /\ ~block_challenge_success' /\ blocked'
            /\ Len(hands'[acting_player_index]) = Len(hands[acting_player_index]) - 1
            /\ Len(hands'[blocking_player_index']) = Len(hands[blocking_player_index'])
       /\ (pc = "effect" /\ CounterChallengeFailed) =>
            /\ action.move \in {"FOREIGN_AID", "STEAL"} => coins' = coins
            /\ action.move = "ASSASSINATE" => hands' = hands
      ]_vars

(* C9: coin non-negativity.  In every reachable state every player's coin        *)
(* balance is at least 0.                                                        *)
C9_CoinsNonNegative == \A p \in Seats : coins[p] >= 0

\* a paid move or a steal has left a player with no coins
C9_Witness ==
    /\ pc = "observe" /\ will_take_action
    /\ \/ action.move \in {"COUP", "ASSASSINATE"} /\ coins[acting_player_index] = 0
       \/ action.move = "STEAL" /\ ~blocked /\ action.target_player /= None
            /\ coins[action.target_player] = 0

(* C10: Steal conservation.  The effect step of an unchallenged, unblocked Steal *)
(* on a target the engine accepted gives the actor min(target coins, 2), takes   *)
(* the same amount from the target and leaves the sum of all coins unchanged.    *)
C10_StealConservation ==
    [][(/\ pc = "effect" /\ will_take_action /\ action.move = "STEAL"
        /\ ~Answered("challenge") /\ ~Answered("block")
        /\ action.target_player /= None) =>
            LET a == acting_player_index
                t == action.target_player
            IN /\ pc' = "observe"
               /\ coins'[a] - coins[a] = Least(coins[t], 2)
               /\ coins[t] - coins'[t] = Least(coins[t], 2)
               /\ CoinsOf(coins') = CoinsOf(coins)
      ]_vars

(* C11: Assassinate cost is paid regardless of block.  The effect step of an     *)
(* Assassinate that was not cancelled by the opening challenge, declared with a  *)
(* target and at least 3 coins, takes exactly 3 coins from the actor and changes *)
(* no other balance, whether blocked is true or false; with blocked true no hand *)
(* changes, with blocked false a living target loses exactly one card.           *)
C11_AssassinateCostPaid ==
    [][(/\ pc = "effect" /\ will_take_action /\ action.move = "ASSASSINATE"
        /\ action.target_player /= None /\ coins[acting_player_index] >= 3) =>
            LET a == acting_player_index
                t == action.target_player
            IN /\ pc' = "observe"
               /\ coins' = [coins EXCEPT ![a] = @ - 3]
               /\ blocked => hands' = hands
               /\ (~blocked /\ alive(hands, t)) => hands' = [hands EXCEPT ![t] = Tail(@)]
               /\ (~blocked /\ ~alive(hands, t)) => hands' = hands
      ]_vars

\* an Assassinate whose block stands has passed its effect step and was paid for
C11_Witness ==
    /\ pc = "observe" /\ will_take_action /\ action.move = "ASSASSINATE"
    /\ blocked /\ coins[acting_player_index] = 0
    /\ alive(hands, action.target_player)

\* the declared move costs more coins than the actor holds; coins do not change
\* between the declaration and the effect step
InsufficientCoins ==
    \/ action.move = "COUP" /\ coins[acting_player_index] < 7
    \/ action.move = "ASSASSINATE" /\ coins[acting_player_index] < 3

(* C12: insufficient coins is fatal.  A turn in which Coup was declared with     *)
(* fewer than 7 coins, or Assassinate with fewer than 3, never gets past its     *)
(* effect step: when the turn reaches that step, the step ends the game with an  *)
(* error, whatever the challenge and block decisions were.                       *)
C12_InsufficientCoinsFatal ==
    [][(pc = "effect" /\ InsufficientCoins) => pc' = "aborted"]_vars

\* the seats other than o, as a list in seat order
OtherSeats(o) == SelectSeq([k \in 1..num_players |-> k - 1], LAMBDA p : p /= o)

RECURSIVE Concat(_)
Concat(ss) == IF ss = <<>> THEN <<>> ELSE Head(ss) \o Concat(Tail(ss))

\* the cards an observer cannot see: the other players' hands, then the deck
HiddenCards(o) ==
    Concat([k \in 1..Len(OtherSeats(o)) |-> hands[OtherSeats(o)[k]]]) \o deck

\* the hands of the states that differ from this one only in where the cards
\* hidden from o lie: o's hand, every hand size, all coins and the turn's events
\* are the same, the hidden cards are dealt in another order
RECURSIVE DealHidden(_, _, _)
DealHidden(h, seats, cards) ==
    IF seats = <<>> THEN h
    ELSE DealHidden([h EXCEPT ![Head(seats)] = SubSeq(cards, 1, Len(hands[Head(seats)]))],
                    Tail(seats),
                    SubSeq(cards, Len(hands[Head(seats)]) + 1, Len(cards)))

HiddenDeals(o) == {DealHidden(hands, OtherSeats(o), cards) : cards \in sample(HiddenCards(o))}

(* C13: views never reveal other players' card identities.  At the observation   *)
(* step of a turn without a challenge and without a block (its public events do  *)
(* not depend on any card), the turn record and game view handed to an observer  *)
(* are the same in every state that differs only in which of the hidden cards    *)
(* the other players hold.                                                       *)
C13_ViewsHideOtherCards ==
    (pc = "observe" /\ ObserveError = "" /\ ~challenged /\ ~block_attempted) =>
        \A o \in Seats : \A h2 \in HiddenDeals(o) :
            observe(h2, coins, o) = observe(hands, coins, o)

\* the living opponents of o in turn-relative order: (o+1) mod n, (o+2) mod n, ...
LivingOpponents(o) ==
    SelectSeq([k \in 1..(num_players - 1) |-> (o + k) % num_players],
              LAMBDA p : alive(hands, p))

(* C14: game view contents.  In every state, for every observer index,           *)
(* to_game_view succeeds and returns the observer's own coins and hand and, for  *)
(* each living opponent in turn-relative order, its coins and its hand size.     *)
C14_GameViewContents ==
    \A o \in Seats :
        /\ ~to_game_view_raises(o)
        /\ LET view == to_game_view(hands, coins, o)
               opponents == LivingOpponents(o)
           IN /\ view.observer_coins = coins[o]
              /\ view.observer_cards = hands[o]
              /\ view.other_player_coins = [k \in 1..Len(opponents) |-> coins[opponents[k]]]
              /\ view.other_player_card_counts =
                    [k \in 1..Len(opponents) |-> Len(hands[opponents[k]])]

(* C15: target resolution.  A declaration whose target index is 0 is rejected,   *)
(* and the resolved target of every accepted declaration that names a target is  *)
(* a living player other than the actor.                                         *)
C15_TargetResolution ==
    [][(pc = "play" /\ pc' /= "play" /\ action'.target_player_index /= None) =>
            /\ action'.target_player_index = 0 => pc' = "aborted"
            /\ pc' /= "aborted" =>
                  /\ action'.target_player /= acting_player_index
                  /\ alive(hands, action'.target_player)
      ]_vars

\* the positions in asked of the block decisions of this turn answered yes
BlocksDeclared == {k \in 1..Len(asked) : asked[k].decision = "block" /\ asked[k].answer}

Blockable(move) == \E card \in Card : blockable_by(move, card)

(* C17: blocking is offered only for blockable moves.  A player is asked for a   *)
(* block decision only in a turn whose declared move some card can block; for    *)
(* Income, Coup, Tax and Exchange blocked stays false.                           *)
C17_BlockOnlyBlockable ==
    /\ \A k \in 1..Len(asked) : asked[k].decision = "block" => Blockable(action.move)
    /\ (pc \in {"block", "effect", "observe"} /\ ~Blockable(action.move)) => ~blocked

(* C18: a successful opening challenge makes the rest of the turn a no-op.  Once *)
(* the opening challenge of a turn has succeeded, no later step of that turn     *)
(* (block decisions, counter-challenges, the effect step) changes a hand, a coin *)
(* balance or the deck, and none of them ends the game with an error.            *)
C18_NoOpAfterSuccessfulChallenge ==
    [][(pc \in {"block", "effect"} /\ ChallengeSucceeded) =>
            /\ hands' = hands /\ coins' = coins /\ deck' = deck
            /\ pc' /= "aborted"
      ]_vars

(* C19: every legal turn reaches observation and advance.  A turn whose effect   *)
(* step ran to its end (the declared move met its preconditions) delivers the    *)
(* turn records at the observation step and then moves the current-player        *)
(* pointer to the next seat index modulo the number of players.                  *)
C19_LegalTurnObservedAndAdvanced ==
    [][(pc = "observe" /\ will_take_action /\ Blockable(action.move)) =>
            /\ pc' = "play"
            /\ acting_player_index' = (acting_player_index + 1) % num_players
      ]_vars

\* the positions in asked of the challenge decisions of this turn
ChallengesAsked == {k \in 1..Len(asked) : asked[k].decision = "challenge"}

\* the offset of seat p after the actor in turn order
OffsetOf(p) == (p - acting_player_index + num_players) % num_players

(* C20: at most one challenge per action.  Each step of the challenge window     *)
(* asks the first living player after the one asked before it (after the actor   *)
(* for the first step), a yes ends the window, and the step takes at most one    *)
(* card out of the hands; in every state at most one challenge decision of the   *)
(* turn was answered yes and no challenge decision was asked after it.           *)
C20_AtMostOneChallenge ==
    /\ [](/\ Cardinality({k \in ChallengesAsked : asked[k].answer}) <= 1
          /\ \A k \in ChallengesAsked :
                asked[k].answer => \A j \in (k + 1)..Len(asked) : j \notin ChallengesAsked)
    /\ [][pc = "challenge" =>
            LET query == asked'[Len(asked')]
                before == IF asked[Len(asked)].decision = "challenge"
                          THEN OffsetOf(asked[Len(asked)].player) ELSE 0
            IN /\ Len(asked') = Len(asked) + 1
               /\ query.decision = "challenge"
               /\ OffsetOf(query.player) > before
               /\ alive(hands, query.player)
               /\ \A j \in (before + 1)..(OffsetOf(query.player) - 1) :
                     ~alive(hands, (acting_player_index + j) % num_players)
               /\ query.answer => pc' /= "challenge"
               /\ CardsInHands' >= CardsInHands - 1
         ]_vars

\* in a 3-player turn the first player asked challenged, and the window closed
\* without asking the living player after it
C20_Witness ==
    /\ num_players = 3 /\ Len(asked) >= 3
    /\ asked[2].decision = "challenge" /\ asked[2].answer /\ asked[2].player = 1
    /\ asked[3].decision = "block"
    /\ alive(hands, 2)

(* C21: shuffle after every return.  No deal takes a card from a deck that has   *)
(* received returned cards since its last shuffle: when the effect step of an    *)
(* Exchange is about to deal the two top cards, the deck has been shuffled since *)
(* the last card was returned to it.  (The redraw after a failed challenge deals *)
(* inside _replace_player_card, right after its shuffle.)                        *)
C21_ShuffleAfterReturn ==
    (pc = "effect" /\ will_take_action /\ action.move = "EXCHANGE" /\ Len(deck) >= 2)
        => ~returned_since_shuffle

(* C22: the deck is never exhausted.  In a game set up with                      *)
(* num_players * cards_per_player + 2 <= deck size, the deck holds at least 2    *)
(* cards in every reachable state, so an exchange always finds its two cards and *)
(* a challenge redraw, which first returns a card, always finds one; no step     *)
(* empties the deck.                                                             *)
C22_DeckNeverExhausted == Len(deck) >= 2

\* a turn in which a challenge redraw and then an exchange both dealt from the deck
C22_Witness ==
    /\ pc = "observe" /\ will_take_action /\ action.move = "EXCHANGE"
    /\ challenged /\ ChallengeFailed
    /\ Len(deck) = 2

\* the number of copies of card in the list s
CountOf(card, s) == Cardinality({k \in 1..Len(s) : s[k] = card})

C24_InfluenceLossOnlyLiving ==
    [][(pc \in {"challenge", "block", "effect"} /\ Len(deck) >= 2) =>
            ~(pc' = "aborted" /\ error' = "IndexError")
      ]_vars

(* C25: a game of IncomeAgents terminates.  With IncomeAgents in every seat no   *)
(* step of construction or play ends with a fatal error, for every number of     *)
(* players, and when play() has returned exactly one player is alive and it is   *)
(* the winner returned.                                                          *)
C25_IncomeGameNoFatalError ==
    /\ pc /= "aborted"
    /\ pc = "returned" => (Cardinality(AliveSeats) = 1 /\ AliveSeats = {winner})

====
